---- MODULE Spec2Model ----
(***************************************************************************)
(* A model of Lib/rattlesnake: the converter from stack-machine wordcode   *)
(* to register-machine wordcode.  A run takes one code unit through        *)
(* find_blocks, gen_rvm (one source instruction per step), the peephole    *)
(* passes, and the two outputs, __bytes__ and get_lnotab.                  *)
(*                                                                         *)
(* Wordcode is a sequence of words [op, arg]; word k sits at byte offset   *)
(* 2*(k-1).  Opcodes are named by their mnemonics.  Block numbers are      *)
(* 0-based as in the source; block number b is element b+1 of a block      *)
(* list.                                                                   *)
(***************************************************************************)
EXTENDS Integers, Sequences, FiniteSets, TLC

VARIABLES codeobj, pc, pyvm, rvm, stacklevel, cursor, phase, ret

vars == <<codeobj, pc, pyvm, rvm, stacklevel, cursor, phase, ret>>

(***************************************************************************)
(* Bounds of the inputs.                                                   *)
(***************************************************************************)
MaxLen == 4

MaxStackSize == 2

(***************************************************************************)
(* The opcode catalog of the host runtime, as far as the inputs use it.    *)
(***************************************************************************)
EXT_ARG_OPCODE == "EXTENDED_ARG"

NOP_OPCODE == "NOP"

hasjrel == {"JUMP_FORWARD", "FOR_ITER"}

hasjabs == {"JUMP_ABSOLUTE", "POP_JUMP_IF_FALSE", "POP_JUMP_IF_TRUE"}

is_rel_jump(op) == op \in hasjrel

is_abs_jump(op) == op \in hasjabs

is_jump(op) == is_abs_jump(op) \/ is_rel_jump(op)

(***************************************************************************)
(* Helpers on sequences.                                                   *)
(***************************************************************************)
RECURSIVE SumSeq(_)
SumSeq(s) == IF s = <<>> THEN 0 ELSE Head(s) + SumSeq(Tail(s))

RECURSIVE Flatten(_)
Flatten(ss) == IF ss = <<>> THEN <<>> ELSE Head(ss) \o Flatten(Tail(ss))

Without(r, f) == [k \in (DOMAIN r) \ {f} |-> r[k]]

(***************************************************************************)
(* LineNumberDict: the line of a byte offset is the line of the last       *)
(* co_lnotab entry at or before it, co_firstlineno before the first entry. *)
(* co_lnotab is a sequence of <<address delta, line delta>> pairs.         *)
(***************************************************************************)
RECURSIVE LineNumberFrom(_, _, _, _)
LineNumberFrom(tab, offset, addr, line) ==
    IF tab = <<>> THEN line
    ELSE LET a == addr + Head(tab)[1]
             l == line + Head(tab)[2]
         IN IF a > offset THEN line
            ELSE LineNumberFrom(Tail(tab), offset, a, l)

LineNumberDict(co, offset) ==
    LineNumberFrom(co.co_lnotab, offset, 0, co.co_firstlineno)

(***************************************************************************)
(* OptimizeFilter.findlabels: the set of jump targets, with 0.             *)
(***************************************************************************)
RECURSIVE findlabels_from(_, _, _, _)
findlabels_from(code, k, carry_oparg, labels) ==
    IF k > Len(code) THEN labels
    ELSE LET op    == code[k].op
             i     == 2 * (k - 1)
             oparg == carry_oparg * 256 + code[k].arg
         IN IF op = EXT_ARG_OPCODE
            THEN findlabels_from(code, k + 1, oparg, labels)
            ELSE findlabels_from(code, k + 1, 0,
                     labels \cup (IF op \in hasjrel THEN {i + oparg}
                                  ELSE IF op \in hasjabs THEN {oparg}
                                  ELSE {}))

findlabels(code) == findlabels_from(code, 1, 0, {0})

(***************************************************************************)
(* Instructions of the source machine.  A JumpInstruction is built with    *)
(* the byte address of its target and no target block yet (-1).            *)
(***************************************************************************)
PyVMInstruction(op, oparg, line) ==
    [cls |-> "PyVMInstruction", opcode |-> op, opargs |-> <<oparg>>,
     line_number |-> line]

JumpInstruction(op, address, line) ==
    [cls |-> "JumpInstruction", opcode |-> op, target_address |-> address,
     target |-> -1, line_number |-> line]

Block(block_type, block_number, address) ==
    [block_type |-> block_type, block_number |-> block_number,
     address |-> address, stacklevel |-> -1, instructions |-> <<>>]

BlockAppend(blocks, instr) ==
    [blocks EXCEPT ![Len(blocks)].instructions = Append(@, instr)]

(***************************************************************************)
(* OptimizeFilter.find_blocks, the loop over the words of the code.        *)
(***************************************************************************)
\* A faulty variant of the address of a jump: a relative jump is read as
\* an absolute one.
jump_address_absolute_only(op, oparg, offset) == oparg

\* The byte address a jump goes to: relative jumps are made absolute.
jump_address(op, oparg, offset) ==
    IF is_rel_jump(op) THEN oparg + offset ELSE oparg

RECURSIVE find_blocks_from(_, _, _, _, _)
find_blocks_from(co, labels, k, ext_oparg, blocks) ==
    IF k > Len(co.co_code) THEN blocks
    ELSE LET offset == 2 * (k - 1)
             op     == co.co_code[k].op
             opened == IF offset \in labels
                       THEN Append(blocks, Block("PyVM", Len(blocks), offset))
                       ELSE blocks
             oparg  == ext_oparg * 256 + co.co_code[k].arg
             line   == LineNumberDict(co, offset)
             instr  == IF is_jump(op)
                       THEN JumpInstruction(op, jump_address(op, oparg, offset),
                                            line)
                       ELSE PyVMInstruction(op, oparg, line)
         IN IF op = EXT_ARG_OPCODE
            THEN find_blocks_from(co, labels, k + 1, oparg, opened)
            ELSE find_blocks_from(co, labels, k + 1, 0, BlockAppend(opened, instr))

(***************************************************************************)
(* OptimizeFilter.convert_jump_targets_to_blocks: the first block at the   *)
(* target address gives the target; the assertion fails when there is      *)
(* none.  The target address is deleted from the instruction.              *)
(***************************************************************************)
TargetBlocks(blocks, address) ==
    {b \in 1..Len(blocks) : blocks[b].address = address}

FirstTarget(blocks, address) ==
    LET bs == TargetBlocks(blocks, address)
    IN blocks[CHOOSE b \in bs : \A c \in bs : b <= c].block_number

\* The jumps no block answers, as <<block, instruction>> positions, and
\* the order in which the two loops meet the instructions.
Dangling(blocks) ==
    {p \in UNION {{<<b, i>> : i \in 1..Len(blocks[b].instructions)} :
                     b \in 1..Len(blocks)} :
        /\ blocks[p[1]].instructions[p[2]].cls = "JumpInstruction"
        /\ TargetBlocks(blocks,
               blocks[p[1]].instructions[p[2]].target_address) = {}}

Before(p, q) == p[1] < q[1] \/ (p[1] = q[1] /\ p[2] < q[2])

jump_assertion_holds(blocks) == Dangling(blocks) = {}

resolve_jump(blocks, instr) ==
    IF instr.cls = "JumpInstruction"
    THEN Without([instr EXCEPT !.target =
                      FirstTarget(blocks, instr.target_address)],
                 "target_address")
    ELSE instr

\* The jumps met before the first one that fails the assertion are done.
convert_jump_targets_to_blocks(blocks) ==
    [b \in 1..Len(blocks) |->
        [blocks[b] EXCEPT !.instructions =
            [i \in 1..Len(blocks[b].instructions) |->
                IF \A d \in Dangling(blocks) : Before(<<b, i>>, d)
                THEN resolve_jump(blocks, blocks[b].instructions[i])
                ELSE blocks[b].instructions[i]]]]

find_blocks_result(co) ==
    find_blocks_from(co, findlabels(co.co_code), 1, 0, <<>>)

(***************************************************************************)
(* The inputs: code units over a small alphabet of words.                  *)
(***************************************************************************)
Word(op, arg) == [op |-> op, arg |-> arg]

CoreAlphabet ==
    {Word("LOAD_FAST", 0), Word("LOAD_CONST", 0), Word("STORE_FAST", 0),
     Word("BINARY_ADD", 0), Word("BUILD_LIST", 2), Word("RETURN_VALUE", 0),
     Word("POP_JUMP_IF_FALSE", 6)}

\* The host compiler gives an instruction at most three EXTENDED_ARG
\* words: an oparg has 32 bits.
ExtendedArgsFit(code) ==
    \A k \in 1..(Len(code) - 3) :
        \E i \in k..(k + 3) : code[i].op # EXT_ARG_OPCODE

Programs(alphabet) ==
    {code \in UNION {[1..n -> alphabet] : n \in 1..MaxLen} :
        ExtendedArgsFit(code)}

CodeUnits(alphabet, stacksizes, lnotabs) ==
    [co_code : Programs(alphabet), co_nlocals : {1},
     co_stacksize : stacksizes, co_firstlineno : {1}, co_lnotab : lnotabs]

\* What the last call gave its caller: None, a value, or an exception.
NoValue == [returned |-> "None"]

RaisedValue(exc) == [returned |-> "raised", raised |-> exc]

InitWith(units) ==
    /\ codeobj \in units
    /\ pc = "new"
    /\ pyvm = <<>>
    /\ rvm = <<>>
    /\ stacklevel = codeobj.co_nlocals
    /\ cursor = <<0, 0>>
    /\ phase = "none"
    /\ ret = NoValue

Init == InitWith(CodeUnits(CoreAlphabet, 1..MaxStackSize, {<<>>}))

\* Code with EXTENDED_ARG words, jumps of both kinds, and an opcode no
\* convert method handles.
JumpAlphabet ==
    {Word("EXTENDED_ARG", 0), Word("EXTENDED_ARG", 1), Word("JUMP_FORWARD", 2),
     Word("JUMP_ABSOLUTE", 4), Word("FOR_ITER", 2), Word("LOAD_CONST", 0)}

InitJumps == InitWith(CodeUnits(JumpAlphabet, {MaxStackSize}, {<<>>}))

\* Code with line-number tables: up to two <<address delta, line delta>>
\* entries; a line delta may be negative.
LnotabEntries == {<<2, 1>>, <<4, 1>>, <<2, -1>>}

Lnotabs ==
    {<<>>} \cup {<<e>> : e \in LnotabEntries}
    \cup {<<e, f>> : e \in LnotabEntries, f \in LnotabEntries}

LineAlphabet ==
    {Word("LOAD_FAST", 0), Word("LOAD_CONST", 0), Word("BINARY_ADD", 0),
     Word("STORE_FAST", 0)}

InitLines == InitWith(CodeUnits(LineAlphabet, {MaxStackSize}, Lnotabs))

\* Code that ends in one instruction of a dispatch family, after the loads
\* that fill the stack for it.
FamilyWords ==
    {Word(op, 0) : op \in {"UNARY_NOT", "BINARY_ADD", "INPLACE_ADD",
                           "BINARY_SUBSCR", "LOAD_FAST", "LOAD_CONST",
                           "LOAD_GLOBAL", "STORE_FAST", "STORE_GLOBAL",
                           "POP_JUMP_IF_FALSE", "POP_JUMP_IF_TRUE",
                           "JUMP_FORWARD", "JUMP_ABSOLUTE", "RETURN_VALUE"}}
    \cup {Word(op, n) : op \in {"BUILD_LIST", "BUILD_TUPLE", "CALL_FUNCTION"},
                        n \in 0..MaxStackSize}
    \cup {Word(op, 1) : op \in {"BUILD_MAP", "LIST_EXTEND", "CALL_FUNCTION_KW",
                                "COMPARE_OP"}}

FamilyPrograms ==
    {loads \o <<w>> :
        loads \in UNION {[1..n -> {Word("LOAD_FAST", 0), Word("LOAD_CONST", 0)}] :
                            n \in 0..(MaxLen - 1)},
        w \in FamilyWords}

InitFamilies ==
    InitWith([co_code : FamilyPrograms, co_nlocals : {1},
              co_stacksize : {MaxStackSize + 1}, co_firstlineno : {1},
              co_lnotab : {<<>>}])

\* Code with calls and builds of sequences and maps, and an instruction
\* that writes a register again without being a load.
CallAlphabet ==
    {Word("LOAD_FAST", 0), Word("LOAD_CONST", 0), Word("UNARY_NOT", 0),
     Word("BUILD_LIST", 1), Word("BUILD_MAP", 1), Word("CALL_FUNCTION", 1),
     Word("CALL_FUNCTION_KW", 1)}

InitCalls == InitWith(CodeUnits(CallAlphabet, {MaxStackSize + 1}, {<<>>}))

max_stacklevel == codeobj.co_nlocals + codeobj.co_stacksize

(***************************************************************************)
(* Instructions of the register machine.  Every instruction starts with    *)
(* line_number -1 (Instruction.__init__); the fields a class has are the   *)
(* attributes the passes find with getattr and hasattr.                    *)
(***************************************************************************)
HasAttr(instr, f) == f \in DOMAIN instr

Instruction(cls, op) == [cls |-> cls, opcode |-> op, line_number |-> -1]

NOPInstruction(op) == Instruction("NOPInstruction", op)

LoadFastInstruction(op, dest, source1) ==
    Instruction("LoadFastInstruction", op) @@
    [dest |-> dest, source1 |-> source1, protected |-> FALSE]

LoadConstInstruction(op, dest, name1) ==
    Instruction("LoadConstInstruction", op) @@ [dest |-> dest, name1 |-> name1]

LoadGlobalInstruction(op, dest, name1) ==
    Instruction("LoadGlobalInstruction", op) @@ [dest |-> dest, name1 |-> name1]

StoreFastInstruction(op, dest, source1) ==
    Instruction("StoreFastInstruction", op) @@
    [dest |-> dest, source1 |-> source1]

StoreGlobalInstruction(op, name1, source1) ==
    Instruction("StoreGlobalInstruction", op) @@
    [name1 |-> name1, source1 |-> source1]

UnaryOpInstruction(op, dest, source1) ==
    Instruction("UnaryOpInstruction", op) @@ [dest |-> dest, source1 |-> source1]

BinOpInstruction(op, dest, source1, source2) ==
    Instruction("BinOpInstruction", op) @@
    [dest |-> dest, source1 |-> source1, source2 |-> source2]

CompareOpInstruction(op, dest, source1, source2, compare_op) ==
    Instruction("CompareOpInstruction", op) @@
    [dest |-> dest, source1 |-> source1, source2 |-> source2,
     compare_op |-> compare_op]

BuildSeqInstruction(op, length, dest) ==
    Instruction("BuildSeqInstruction", op) @@ [length |-> length, dest |-> dest]

ExtendSeqInstruction(op, source1, dest) ==
    Instruction("ExtendSeqInstruction", op) @@
    [source1 |-> source1, dest |-> dest]

CallInstruction(op, nargs, dest) ==
    Instruction("CallInstruction", op) @@ [nargs |-> nargs, dest |-> dest]

CallInstructionKW(op, nargs, nreg, dest) ==
    Instruction("CallInstructionKW", op) @@
    [nargs |-> nargs, nreg |-> nreg, dest |-> dest]

JumpAbsInstruction(op, target) ==
    Instruction("JumpAbsInstruction", op) @@ [target |-> target]

JumpIfInstruction(op, target, source1) ==
    Instruction("JumpIfInstruction", op) @@
    [target |-> target, source1 |-> source1]

ReturnInstruction(op, source1) ==
    Instruction("ReturnInstruction", op) @@ [source1 |-> source1]

(***************************************************************************)
(* The simulated stack.  push and pop change the level first and check     *)
(* afterwards; each gives the new level, whether StackSizeException was    *)
(* raised, and the value returned when it was not.                         *)
(***************************************************************************)
push(level, limit) ==
    [level |-> level + 1, raised |-> level + 1 > limit, val |-> level]

pop(level, nlocals) ==
    [level |-> level - 1, raised |-> level - 1 < nlocals, val |-> level - 1]

peek(level, n, nlocals) ==
    [level |-> level, raised |-> level - n < nlocals, val |-> level - n]

top(level) == level

\* for _ in range(n): self.pop()
RECURSIVE popn(_, _, _)
popn(level, n, nlocals) ==
    IF n = 0 THEN [level |-> level, raised |-> FALSE, val |-> level]
    ELSE LET p == pop(level, nlocals)
         IN IF p.raised THEN p ELSE popn(p.level, n - 1, nlocals)

(***************************************************************************)
(* What a convert method does: it returns an instruction, returns None,    *)
(* or lets StackSizeException out.  setlevel holds the calls of            *)
(* set_block_stacklevel it made, as <<target, level>> pairs.               *)
(***************************************************************************)
Converted(level, instr) ==
    [status |-> "instr", level |-> level, instr |-> instr, setlevel |-> <<>>]

ReturnedNone(level) ==
    [status |-> "None", level |-> level, setlevel |-> <<>>]

Raised(level) ==
    [status |-> "StackSizeException", level |-> level, setlevel |-> <<>>]

\* The opcode of the register machine: opcode.opmap[opname + "_REG"].
reg_opcode(op) == op \o "_REG"

\* f"{opname}_REG"[4:] for the two POP_JUMP_IF opcodes.
jump_if_opcode(op) ==
    IF op = "POP_JUMP_IF_FALSE" THEN "JUMP_IF_FALSE_REG" ELSE "JUMP_IF_TRUE_REG"

\* opargs[0] of a source instruction; of a jump, its target block.
PyVMOparg(instr) ==
    IF instr.cls = "JumpInstruction" THEN instr.target ELSE instr.opargs[1]

unary_convert(instr, level, nlocals, limit) ==
    LET src == pop(level, nlocals)
        dst == push(src.level, limit)
    IN IF src.raised THEN Raised(src.level)
       ELSE IF dst.raised THEN Raised(dst.level)
       ELSE Converted(dst.level,
                UnaryOpInstruction(reg_opcode(instr.opcode), dst.val, src.val))

binary_convert(instr, level, nlocals, limit) ==
    LET src2 == pop(level, nlocals)
        src1 == pop(src2.level, nlocals)
        dst  == push(src1.level, limit)
    IN IF src2.raised THEN Raised(src2.level)
       ELSE IF src1.raised THEN Raised(src1.level)
       ELSE IF dst.raised THEN Raised(dst.level)
       ELSE Converted(dst.level,
                BinOpInstruction(reg_opcode(instr.opcode),
                                 dst.val, src1.val, src2.val))

function_convert(instr, level, nlocals, limit) ==
    LET nargs == PyVMOparg(instr)
    IN IF instr.opcode = "CALL_FUNCTION"
       THEN LET dest == top(level) - nargs - 1
                p    == popn(level, nargs, nlocals)
            IN IF p.raised THEN Raised(p.level)
               ELSE Converted(p.level,
                        CallInstruction("CALL_FUNCTION_REG", nargs, dest))
       ELSE LET nreg == top(level) - 1
                dest == top(level) - nargs - 2
                p    == popn(level, nargs + 1, nlocals)
            IN IF p.raised THEN Raised(p.level)
               ELSE Converted(p.level,
                        CallInstructionKW("CALL_FUNCTION_KW_REG",
                                          nargs, nreg, dest))

jump_convert(instr, level, nlocals, limit) ==
    IF instr.opcode = "RETURN_VALUE"
    THEN LET p == pop(level, nlocals)
         IN IF p.raised THEN Raised(p.level)
            ELSE Converted(p.level,
                     ReturnInstruction(reg_opcode(instr.opcode), p.val))
    ELSE IF instr.opcode \in {"POP_JUMP_IF_FALSE", "POP_JUMP_IF_TRUE"}
    THEN LET mark == <<PyVMOparg(instr), top(level)>>
             p    == pop(level, nlocals)
         IN [(IF p.raised THEN Raised(p.level)
              ELSE Converted(p.level,
                       JumpIfInstruction(jump_if_opcode(instr.opcode),
                                         instr.target, p.val)))
             EXCEPT !.setlevel = <<mark>>]
    ELSE Converted(level, JumpAbsInstruction(instr.opcode, instr.target))

\* A faulty variant of load_convert: the exception of push() is not
\* caught.
load_convert_uncaught(instr, level, nlocals, limit) ==
    LET src == PyVMOparg(instr)
        dst == push(level, limit)
        op  == reg_opcode(instr.opcode)
    IN IF dst.raised THEN Raised(dst.level)
       ELSE Converted(dst.level,
                CASE instr.opcode = "LOAD_FAST" ->
                         LoadFastInstruction(op, dst.val, src)
                  [] instr.opcode = "LOAD_CONST" ->
                         LoadConstInstruction(op, dst.val, src)
                  [] OTHER -> LoadGlobalInstruction(op, dst.val, src))

load_convert(instr, level, nlocals, limit) ==
    LET src == PyVMOparg(instr)
        dst == push(level, limit)
        op  == reg_opcode(instr.opcode)
    IN IF dst.raised THEN ReturnedNone(dst.level)
       ELSE Converted(dst.level,
                CASE instr.opcode = "LOAD_FAST" ->
                         LoadFastInstruction(op, dst.val, src)
                  [] instr.opcode = "LOAD_CONST" ->
                         LoadConstInstruction(op, dst.val, src)
                  [] OTHER -> LoadGlobalInstruction(op, dst.val, src))

store_convert(instr, level, nlocals, limit) ==
    LET oparg == PyVMOparg(instr)
        src   == pop(level, nlocals)
        op    == reg_opcode(instr.opcode)
    IN IF src.raised THEN Raised(src.level)
       ELSE Converted(src.level,
                IF instr.opcode = "STORE_FAST"
                THEN StoreFastInstruction(op, oparg, src.val)
                ELSE StoreGlobalInstruction(op, oparg, src.val))

\* A faulty variant of seq_convert: BUILD_MAP takes one element for an
\* entry, as the lists and tuples do.
seq_convert_map_as_list(instr, level, nlocals, limit) ==
    LET oparg == PyVMOparg(instr)
        op    == reg_opcode(instr.opcode)
    IN IF instr.opcode \in {"BUILD_LIST", "BUILD_TUPLE", "BUILD_MAP"}
       THEN LET p   == popn(level, oparg, nlocals)
                dst == push(p.level, limit)
            IN IF p.raised THEN Raised(p.level)
               ELSE IF dst.raised THEN Raised(dst.level)
               ELSE Converted(dst.level,
                        BuildSeqInstruction(op, oparg, dst.val))
       ELSE LET src == pop(level, nlocals)
                dst == peek(src.level, oparg, nlocals)
            IN IF src.raised THEN Raised(src.level)
               ELSE IF dst.raised THEN Raised(dst.level)
               ELSE Converted(dst.level,
                        ExtendSeqInstruction(op, src.val, dst.val))

seq_convert(instr, level, nlocals, limit) ==
    LET oparg == PyVMOparg(instr)
        op    == reg_opcode(instr.opcode)
    IN IF instr.opcode \in {"BUILD_LIST", "BUILD_TUPLE", "BUILD_MAP"}
       THEN LET eltlen == IF instr.opcode = "BUILD_MAP" THEN 2 ELSE 1
                p      == popn(level, oparg * eltlen, nlocals)
                dst    == push(p.level, limit)
            IN IF p.raised THEN Raised(p.level)
               ELSE IF dst.raised THEN Raised(dst.level)
               ELSE Converted(dst.level,
                        BuildSeqInstruction(op, oparg, dst.val))
       ELSE LET src == pop(level, nlocals)
                dst == peek(src.level, oparg, nlocals)
            IN IF src.raised THEN Raised(src.level)
               ELSE IF dst.raised THEN Raised(dst.level)
               ELSE Converted(dst.level,
                        ExtendSeqInstruction(op, src.val, dst.val))

compare_convert(instr, level, nlocals, limit) ==
    LET cmpop == PyVMOparg(instr)
        src2  == pop(level, nlocals)
        src1  == pop(src2.level, nlocals)
        dst   == push(src1.level, limit)
    IN IF src2.raised THEN Raised(src2.level)
       ELSE IF src1.raised THEN Raised(src1.level)
       ELSE IF dst.raised THEN Raised(dst.level)
       ELSE Converted(dst.level,
                CompareOpInstruction("COMPARE_OP_REG",
                                     dst.val, src1.val, src2.val, cmpop))

(***************************************************************************)
(* The dispatch table: source opcode to convert method.                    *)
(***************************************************************************)
UnaryOps == {"UNARY_INVERT", "UNARY_POSITIVE", "UNARY_NEGATIVE", "UNARY_NOT"}

BinaryNames ==
    {"POWER", "MULTIPLY", "MATRIX_MULTIPLY", "TRUE_DIVIDE", "FLOOR_DIVIDE",
     "MODULO", "ADD", "SUBTRACT", "LSHIFT", "RSHIFT", "AND", "XOR", "OR"}

BinaryOps ==
    {"BINARY_" \o n : n \in BinaryNames} \cup {"BINARY_SUBSCR"}
    \cup {"INPLACE_" \o n : n \in BinaryNames}

FunctionOps == {"CALL_FUNCTION", "CALL_FUNCTION_KW"}

JumpOps ==
    {"JUMP_FORWARD", "JUMP_ABSOLUTE", "POP_JUMP_IF_FALSE", "POP_JUMP_IF_TRUE",
     "RETURN_VALUE"}

LoadOps == {"LOAD_CONST", "LOAD_GLOBAL", "LOAD_FAST"}

StoreOps == {"STORE_FAST", "STORE_GLOBAL"}

SeqOps == {"BUILD_TUPLE", "BUILD_LIST", "LIST_EXTEND", "BUILD_MAP"}

CompareOps == {"COMPARE_OP"}

dispatch ==
    [op \in UnaryOps \cup BinaryOps \cup FunctionOps \cup JumpOps \cup LoadOps
            \cup StoreOps \cup SeqOps \cup CompareOps |->
        CASE op \in UnaryOps -> "unary_convert"
          [] op \in BinaryOps -> "binary_convert"
          [] op \in FunctionOps -> "function_convert"
          [] op \in JumpOps -> "jump_convert"
          [] op \in LoadOps -> "load_convert"
          [] op \in StoreOps -> "store_convert"
          [] op \in SeqOps -> "seq_convert"
          [] OTHER -> "compare_convert"]

convert(instr, level, nlocals, limit) ==
    LET m == dispatch[instr.opcode]
    IN CASE m = "unary_convert" -> unary_convert(instr, level, nlocals, limit)
         [] m = "binary_convert" -> binary_convert(instr, level, nlocals, limit)
         [] m = "function_convert" -> function_convert(instr, level, nlocals, limit)
         [] m = "jump_convert" -> jump_convert(instr, level, nlocals, limit)
         [] m = "load_convert" -> load_convert(instr, level, nlocals, limit)
         [] m = "store_convert" -> store_convert(instr, level, nlocals, limit)
         [] m = "seq_convert" -> seq_convert(instr, level, nlocals, limit)
         [] OTHER -> compare_convert(instr, level, nlocals, limit)

(***************************************************************************)
(* set_block_stacklevel, for each call a convert method made.              *)
(***************************************************************************)
RECURSIVE set_block_stacklevel(_, _)
set_block_stacklevel(blocks, marks) ==
    IF marks = <<>> THEN blocks
    ELSE set_block_stacklevel(
             [blocks EXCEPT ![Head(marks)[1] + 1].stacklevel = Head(marks)[2]],
             Tail(marks))

(***************************************************************************)
(* The position of the lowering loops: <<block, instruction>>, both from   *)
(* 1; <<0, 0>> when no source instruction is left.                         *)
(***************************************************************************)
NextPos(blocks, b, i) ==
    IF b <= Len(blocks) /\ i <= Len(blocks[b].instructions) THEN <<b, i>>
    ELSE LET later == {c \in (b + 1)..Len(blocks) : blocks[c].instructions # <<>>}
         IN IF later = {} THEN <<0, 0>>
            ELSE <<CHOOSE c \in later : \A d \in later : c <= d, 1>>

(***************************************************************************)
(* Blocks of instructions: length in bytes, and the reset of addresses     *)
(* after a change (mark_dirty).  dirty is a block number, or -1 for None.  *)
(***************************************************************************)
NoneDirty == -1

\* Instruction.opargs of the classes that hold a tuple of fixed length;
\* only its length matters for __len__.
NumOpargs(instr) ==
    CASE instr.cls \in {"NOPInstruction", "JumpAbsInstruction",
                        "ReturnInstruction", "PyVMInstruction",
                        "JumpInstruction"} -> 1
      [] instr.cls \in {"BinOpInstruction", "CallInstructionKW"} -> 3
      [] instr.cls = "CompareOpInstruction" -> 4
      [] OTHER -> 2

InstrLen(instr) == 2 + 2 * (NumOpargs(instr) - 1)

codelen(block) ==
    SumSeq([i \in 1..Len(block.instructions) |-> InstrLen(block.instructions[i])])

\* A faulty variant of mark_dirty: the addresses kept for the blocks stay
\* as they are.
mark_dirty_keeps_addresses(blocks, dirty) == blocks

mark_dirty(blocks, dirty) ==
    IF dirty = NoneDirty THEN blocks
    ELSE [b \in 1..Len(blocks) |->
             IF b = 1 THEN [blocks[b] EXCEPT !.address = 0]
             ELSE IF b >= dirty + 1 THEN [blocks[b] EXCEPT !.address = -1]
             ELSE blocks[b]]

\* if dirty is None: dirty = n  else: dirty = min(n, dirty)
MinDirty(dirty, block_number) ==
    IF dirty = NoneDirty \/ block_number < dirty THEN block_number ELSE dirty

(***************************************************************************)
(* mark_protected_loads.  For an instruction with a window of registers,   *)
(* walk back through the block; the walk protects the loads it meets that  *)
(* write a register of the window not yet saved.                           *)
(***************************************************************************)
HasWindow(instr) == instr.cls \in {"BuildSeqInstruction", "CallInstruction"}

Window(instr) ==
    IF instr.cls = "BuildSeqInstruction"
    THEN instr.dest .. (instr.dest + instr.length - 1)
    ELSE instr.dest .. (instr.dest + instr.nargs - 1)

RECURSIVE protect_walk(_, _, _, _)
protect_walk(instrs, index, saved, found) ==
    IF index = 0 THEN found
    ELSE LET ins == instrs[index]
         IN IF ~HasAttr(ins, "dest") \/ ins.dest \notin DOMAIN saved
            THEN protect_walk(instrs, index - 1, saved, found)
            ELSE IF saved[ins.dest]
            THEN protect_walk(instrs, index - 1, saved, found)
            ELSE LET isload == HasAttr(ins, "protected")
                     saved2 == IF isload
                               THEN [saved EXCEPT ![ins.dest] = TRUE]
                               ELSE saved
                     found2 == IF isload THEN found \cup {index} ELSE found
                 IN IF \A r \in DOMAIN saved2 : saved2[r]
                    THEN found2
                    ELSE protect_walk(instrs, index - 1, saved2, found2)

ProtectedIndexes(instrs) ==
    UNION {protect_walk(instrs, i - 1,
                        [r \in Window(instrs[i]) |-> FALSE], {}) :
           i \in {j \in 1..Len(instrs) : HasWindow(instrs[j])}}

\* A faulty variant of the marking: a load the walks do not reach loses
\* the mark it had.
mark_protected_afresh(instrs) ==
    LET found == ProtectedIndexes(instrs)
    IN [i \in 1..Len(instrs) |->
           IF HasAttr(instrs[i], "protected")
           THEN [instrs[i] EXCEPT !.protected = (i \in found)]
           ELSE instrs[i]]

\* The marks are only ever set: a load marked once stays marked.
mark_protected_block(instrs) ==
    LET found == ProtectedIndexes(instrs)
    IN [i \in 1..Len(instrs) |->
           IF i \in found THEN [instrs[i] EXCEPT !.protected = TRUE]
           ELSE instrs[i]]

mark_protected_loads(blocks) ==
    [b \in 1..Len(blocks) |->
        [blocks[b] EXCEPT !.instructions = mark_protected_block(@)]]

(***************************************************************************)
(* The propagation dictionaries: functions from registers to registers.    *)
(***************************************************************************)
EmptyDict == [r \in {} |-> 0]

DictSet(d, k, v) == [r \in DOMAIN d \cup {k} |-> IF r = k THEN v ELSE d[r]]

DictDel(d, k) == [r \in DOMAIN d \ {k} |-> d[r]]

DictGet(d, k, default) == IF k \in DOMAIN d THEN d[k] ELSE default

(***************************************************************************)
(* forward_propagate_fast_loads on the instructions of one block, from     *)
(* index k on, with the dictionary as it stands.                           *)
(***************************************************************************)
ForwardRewrite(instr, prop_dict) ==
    LET s1 == IF HasAttr(instr, "source1")
              THEN [instr EXCEPT !.source1 = DictGet(prop_dict, @, @)]
              ELSE instr
    IN IF HasAttr(s1, "source2")
       THEN [s1 EXCEPT !.source2 = DictGet(prop_dict, @, @)]
       ELSE s1

RECURSIVE forward_block(_, _, _, _)
forward_block(instrs, k, prop_dict, elided) ==
    IF k > Len(instrs)
    THEN [instructions |-> instrs, prop_dict |-> prop_dict, elided |-> elided]
    ELSE LET instr == instrs[k]
         IN IF /\ instr.cls = "LoadFastInstruction"
               /\ instr.opcode = "LOAD_FAST_REG"
               /\ ~instr.protected
            THEN forward_block([instrs EXCEPT ![k] = NOPInstruction(NOP_OPCODE)],
                               k + 1,
                               DictSet(prop_dict, instr.dest, instr.source1),
                               TRUE)
            ELSE forward_block([instrs EXCEPT ![k] = ForwardRewrite(instr, prop_dict)],
                               k + 1,
                               IF HasAttr(instr, "dest")
                               THEN DictDel(prop_dict, instr.dest)
                               ELSE prop_dict,
                               elided)

\* The loop over the blocks; the dictionary is created once, before it.
RECURSIVE forward_blocks(_, _, _, _)
forward_blocks(blocks, b, prop_dict, dirty) ==
    IF b > Len(blocks) THEN [blocks |-> blocks, dirty |-> dirty]
    ELSE LET r == forward_block(blocks[b].instructions, 1, prop_dict, FALSE)
         IN forward_blocks([blocks EXCEPT ![b].instructions = r.instructions],
                           b + 1, r.prop_dict,
                           IF r.elided /\ dirty = NoneDirty
                           THEN blocks[b].block_number ELSE dirty)

forward_propagate_fast_loads(blocks) ==
    LET r == forward_blocks(mark_protected_loads(blocks), 1, EmptyDict, NoneDirty)
    IN mark_dirty(r.blocks, r.dirty)

(***************************************************************************)
(* backward_propagate_fast_stores on the instructions of one block, from   *)
(* index k down, with the dictionary as it stands.                         *)
(***************************************************************************)
BackwardRewrite(instr, prop_dict) ==
    IF HasAttr(instr, "dest")
    THEN [instr EXCEPT !.dest = DictGet(prop_dict, @, @)]
    ELSE instr

BackwardForget(instr, prop_dict) ==
    LET d1 == IF HasAttr(instr, "source1")
              THEN DictDel(prop_dict, instr.source1) ELSE prop_dict
    IN IF HasAttr(instr, "source2") THEN DictDel(d1, instr.source2) ELSE d1

RECURSIVE backward_block(_, _, _, _)
backward_block(instrs, k, prop_dict, elided) ==
    IF k = 0
    THEN [instructions |-> instrs, prop_dict |-> prop_dict, elided |-> elided]
    ELSE LET instr == instrs[k]
         IN IF instr.cls = "StoreFastInstruction"
            THEN backward_block([instrs EXCEPT ![k] = NOPInstruction(NOP_OPCODE)],
                                k - 1,
                                DictSet(prop_dict, instr.source1, instr.dest),
                                TRUE)
            ELSE backward_block([instrs EXCEPT ![k] = BackwardRewrite(instr, prop_dict)],
                                k - 1,
                                BackwardForget(instr, prop_dict),
                                elided)

RECURSIVE backward_blocks(_, _, _, _)
backward_blocks(blocks, b, prop_dict, dirty) ==
    IF b > Len(blocks) THEN [blocks |-> blocks, dirty |-> dirty]
    ELSE LET r == backward_block(blocks[b].instructions,
                                 Len(blocks[b].instructions), prop_dict, FALSE)
         IN backward_blocks([blocks EXCEPT ![b].instructions = r.instructions],
                            b + 1, r.prop_dict,
                            IF r.elided THEN MinDirty(dirty, blocks[b].block_number)
                            ELSE dirty)

backward_propagate_fast_stores(blocks) ==
    LET r == backward_blocks(blocks, 1, EmptyDict, NoneDirty)
    IN mark_dirty(r.blocks, r.dirty)

(***************************************************************************)
(* delete_nops: every block loses its NOPs, from the last index down.      *)
(***************************************************************************)
RECURSIVE delete_nops_block(_, _)
delete_nops_block(instrs, k) ==
    IF k = 0 THEN instrs
    ELSE IF instrs[k].cls = "NOPInstruction"
    THEN delete_nops_block(SubSeq(instrs, 1, k - 1)
                           \o SubSeq(instrs, k + 1, Len(instrs)), k - 1)
    ELSE delete_nops_block(instrs, k - 1)

RECURSIVE delete_nops_blocks(_, _, _)
delete_nops_blocks(blocks, b, dirty) ==
    IF b > Len(blocks) THEN [blocks |-> blocks, dirty |-> dirty]
    ELSE LET kept == delete_nops_block(blocks[b].instructions,
                                       Len(blocks[b].instructions))
         IN delete_nops_blocks([blocks EXCEPT ![b].instructions = kept], b + 1,
                               IF kept # blocks[b].instructions
                               THEN MinDirty(dirty, blocks[b].block_number)
                               ELSE dirty)

delete_nops(blocks) ==
    LET r == delete_nops_blocks(blocks, 1, NoneDirty)
    IN mark_dirty(r.blocks, r.dirty)

(***************************************************************************)
(* Block.address: the address kept for the block when one is kept,         *)
(* otherwise the address of the block before plus its length; block 0 is   *)
(* at 0.  reflow gives every block its address.                            *)
(***************************************************************************)
RECURSIVE BlockAddress(_, _)
BlockAddress(blocks, b) ==
    IF blocks[b].address # -1 THEN blocks[b].address
    ELSE IF b = 1 THEN 0
    ELSE BlockAddress(blocks, b - 1) + codelen(blocks[b - 1])

reflow(blocks) ==
    [b \in 1..Len(blocks) |->
        [blocks[b] EXCEPT !.address = BlockAddress(blocks, b)]]

(***************************************************************************)
(* Instruction.opargs and Instruction.__bytes__: an EXTENDED_ARG word for  *)
(* every oparg but the last, then the opcode with the last oparg.  A jump  *)
(* gives the address of its target block.                                  *)
(***************************************************************************)
Opargs(instr, blocks) ==
    CASE instr.cls = "NOPInstruction" -> <<0>>
      [] instr.cls = "PyVMInstruction" -> instr.opargs
      [] instr.cls = "JumpInstruction" ->
             <<BlockAddress(blocks, instr.target + 1)>>
      [] instr.cls = "LoadFastInstruction" -> <<instr.dest, instr.source1>>
      [] instr.cls \in {"LoadConstInstruction", "LoadGlobalInstruction"} ->
             <<instr.dest, instr.name1>>
      [] instr.cls = "StoreFastInstruction" -> <<instr.dest, instr.source1>>
      [] instr.cls = "StoreGlobalInstruction" -> <<instr.name1, instr.source1>>
      [] instr.cls = "UnaryOpInstruction" -> <<instr.dest, instr.source1>>
      [] instr.cls = "BinOpInstruction" ->
             <<instr.dest, instr.source1, instr.source2>>
      [] instr.cls = "CompareOpInstruction" ->
             <<instr.dest, instr.source1, instr.source2, instr.compare_op>>
      [] instr.cls = "BuildSeqInstruction" -> <<instr.dest, instr.length>>
      [] instr.cls = "ExtendSeqInstruction" -> <<instr.dest, instr.source1>>
      [] instr.cls = "CallInstruction" -> <<instr.dest, instr.nargs>>
      [] instr.cls = "CallInstructionKW" ->
             <<instr.dest, instr.nreg, instr.nargs>>
      [] instr.cls = "JumpAbsInstruction" ->
             <<BlockAddress(blocks, instr.target + 1)>>
      [] instr.cls = "JumpIfInstruction" ->
             <<BlockAddress(blocks, instr.target + 1), instr.source1>>
      [] instr.cls = "ReturnInstruction" -> <<instr.source1>>

\* A faulty variant of __bytes__: the opargs before the last one get no
\* EXTENDED_ARG word.
InstrBytes_primary_only(instr, blocks) ==
    LET opargs == Opargs(instr, blocks)
    IN <<Word(instr.opcode, opargs[Len(opargs)])>>

InstrBytes(instr, blocks) ==
    LET opargs == Opargs(instr, blocks)
        n      == Len(opargs)
    IN [k \in 1..n |-> IF k < n THEN Word(EXT_ARG_OPCODE, opargs[k])
                       ELSE Word(instr.opcode, opargs[n])]

BlockBytes(block, blocks) ==
    Flatten([i \in 1..Len(block.instructions) |->
                InstrBytes(block.instructions[i], blocks)])

ConverterBytes(blocks) ==
    Flatten([b \in 1..Len(blocks) |-> BlockBytes(blocks[b], blocks)])

\* bytes() takes values of 0..255 only.
IsByteString(values) == \A k \in 1..Len(values) : values[k] \in 0..255

(***************************************************************************)
(* get_lnotab: an <<address delta, line delta>> pair for every instruction *)
(* whose line is past the last line noted.                                 *)
(***************************************************************************)
\* A faulty variant of get_lnotab: the last address noted is never moved,
\* so that every address is counted from 0.
RECURSIVE get_lnotab_from_start(_, _, _, _, _)
get_lnotab_from_start(instrs, last_line_number, last_address, address, lnotab) ==
    IF instrs = <<>> THEN lnotab
    ELSE LET instr == Head(instrs)
             line_number == instr.line_number
         IN IF line_number > last_line_number
            THEN get_lnotab_from_start(Tail(instrs), line_number, last_address,
                                       address + InstrLen(instr),
                                       lnotab \o <<address - last_address,
                                                   line_number - last_line_number>>)
            ELSE get_lnotab_from_start(Tail(instrs), last_line_number,
                                       last_address,
                                       address + InstrLen(instr), lnotab)

RECURSIVE get_lnotab_from(_, _, _, _, _)
get_lnotab_from(instrs, last_line_number, last_address, address, lnotab) ==
    IF instrs = <<>> THEN lnotab
    ELSE LET instr == Head(instrs)
             line_number == instr.line_number
         IN IF line_number > last_line_number
            THEN get_lnotab_from(Tail(instrs), line_number, address,
                                 address + InstrLen(instr),
                                 lnotab \o <<address - last_address,
                                             line_number - last_line_number>>)
            ELSE get_lnotab_from(Tail(instrs), last_line_number, last_address,
                                 address + InstrLen(instr), lnotab)

AllInstructions(blocks) ==
    Flatten([b \in 1..Len(blocks) |-> blocks[b].instructions])

get_lnotab(blocks, firstlineno) ==
    get_lnotab_from(AllInstructions(blocks), firstlineno, 0, 0, <<>>)

(***************************************************************************)
(* gen_rvm, first part: find_blocks, then an empty register block for      *)
(* every source block.  The assertion of convert_jump_targets_to_blocks    *)
(* ends the run when a jump has no target block.                           *)
(***************************************************************************)
gen_rvm_begin ==
    /\ pc = "new"
    /\ LET blocks == find_blocks_result(codeobj)
       IN IF jump_assertion_holds(blocks)
          THEN LET resolved == convert_jump_targets_to_blocks(blocks)
                   start    == NextPos(resolved, 1, 1)
               IN /\ pyvm' = resolved
                  /\ rvm' = [b \in 1..Len(resolved) |->
                                Block("RVM", resolved[b].block_number, -1)]
                  /\ cursor' = start
                  /\ pc' = IF start = <<0, 0>> THEN "lowered" ELSE "lowering"
                  /\ ret' = NoValue
          ELSE /\ pyvm' = convert_jump_targets_to_blocks(blocks)
               /\ pc' = "failed"
               /\ ret' = RaisedValue("AssertionError")
               /\ UNCHANGED <<rvm, cursor>>
    /\ UNCHANGED <<codeobj, stacklevel, phase>>

(***************************************************************************)
(* gen_rvm, one turn of the loop of Block.gen_rvm: look the opcode up in   *)
(* the dispatch table, convert, append.  KeyError and StackSizeException   *)
(* leave gen_rvm; None from a convert method ends the block.               *)
(***************************************************************************)
\* A faulty variant of the lookup: an opcode the table does not have is
\* passed over, as a convert method that returns None is.
gen_rvm_result_passes_over(instr, level, nlocals, limit) ==
    IF instr.opcode \notin DOMAIN dispatch
    THEN ReturnedNone(level)
    ELSE convert(instr, level, nlocals, limit)

gen_rvm_result(instr, level, nlocals, limit) ==
    IF instr.opcode \notin DOMAIN dispatch
    THEN [status |-> "KeyError", level |-> level, setlevel |-> <<>>]
    ELSE convert(instr, level, nlocals, limit)

gen_rvm_step ==
    /\ pc = "lowering"
    /\ LET b     == cursor[1]
           i     == cursor[2]
           instr == pyvm[b].instructions[i]
           r     == gen_rvm_result(instr, stacklevel, codeobj.co_nlocals,
                                   max_stacklevel)
           marked == set_block_stacklevel(rvm, r.setlevel)
           next  == IF r.status = "instr" THEN NextPos(pyvm, b, i + 1)
                    ELSE NextPos(pyvm, b + 1, 1)
       IN /\ stacklevel' = r.level
          /\ IF r.status \in {"KeyError", "StackSizeException"}
             THEN /\ pc' = "failed"
                  /\ ret' = RaisedValue(r.status)
                  /\ rvm' = marked
                  /\ cursor' = cursor
             ELSE /\ rvm' = IF r.status = "instr"
                            THEN [marked EXCEPT ![b].instructions =
                                     Append(@, [r.instr EXCEPT !.line_number =
                                                    instr.line_number])]
                            ELSE marked
                  /\ cursor' = next
                  /\ pc' = IF next = <<0, 0>> THEN "lowered" ELSE "lowering"
                  /\ ret' = NoValue
    /\ UNCHANGED <<codeobj, pyvm, phase>>

(***************************************************************************)
(* The methods a caller runs on the lowered blocks, in any order.  phase   *)
(* follows the pipeline forward, backward, delete: "fwd", "bwd", then      *)
(* "done"; a pass out of that order gives "mixed".                         *)
(***************************************************************************)
PhaseAfter(pass) ==
    CASE phase = "done" -> "done"
      [] pass = "fwd" /\ phase = "none" -> "fwd"
      [] pass = "bwd" /\ phase = "fwd" -> "bwd"
      [] pass = "nops" /\ phase = "bwd" -> "done"
      [] OTHER -> "mixed"

forward_propagate ==
    /\ pc = "lowered"
    /\ rvm' = forward_propagate_fast_loads(rvm)
    /\ phase' = PhaseAfter("fwd")
    /\ ret' = NoValue
    /\ UNCHANGED <<codeobj, pc, pyvm, stacklevel, cursor>>

backward_propagate ==
    /\ pc = "lowered"
    /\ rvm' = backward_propagate_fast_stores(rvm)
    /\ phase' = PhaseAfter("bwd")
    /\ ret' = NoValue
    /\ UNCHANGED <<codeobj, pc, pyvm, stacklevel, cursor>>

delete_nops_pass ==
    /\ pc = "lowered"
    /\ rvm' = delete_nops(rvm)
    /\ phase' = PhaseAfter("nops")
    /\ ret' = NoValue
    /\ UNCHANGED <<codeobj, pc, pyvm, stacklevel, cursor>>

\* __bytes__: the addresses are computed as the jumps ask for them.
converter_bytes ==
    /\ pc = "lowered"
    /\ LET flowed == reflow(rvm)
           words  == ConverterBytes(flowed)
       IN /\ rvm' = flowed
          /\ IF IsByteString([k \in 1..Len(words) |-> words[k].arg])
             THEN /\ ret' = [returned |-> "bytes", bytes |-> words]
                  /\ pc' = pc
             ELSE /\ ret' = RaisedValue("ValueError")
                  /\ pc' = "failed"
    /\ UNCHANGED <<codeobj, pyvm, stacklevel, cursor, phase>>

lnotab_call ==
    /\ pc = "lowered"
    /\ LET lnotab == get_lnotab(rvm, codeobj.co_firstlineno)
       IN IF IsByteString(lnotab)
          THEN /\ ret' = [returned |-> "lnotab", lnotab |-> lnotab]
               /\ pc' = pc
          ELSE /\ ret' = RaisedValue("ValueError")
               /\ pc' = "failed"
    /\ UNCHANGED <<codeobj, pyvm, rvm, stacklevel, cursor, phase>>

Next ==
    \/ gen_rvm_begin
    \/ gen_rvm_step
    \/ forward_propagate
    \/ backward_propagate
    \/ delete_nops_pass
    \/ converter_bytes
    \/ lnotab_call

Spec == Init /\ [][Next]_vars

SpecJumps == InitJumps /\ [][Next]_vars

SpecLines == InitLines /\ [][Next]_vars

SpecFamilies == InitFamilies /\ [][Next]_vars

SpecCalls == InitCalls /\ [][Next]_vars

(***************************************************************************)
(* Shorthands for the properties below.                                    *)
(***************************************************************************)
RegisterFields == {"dest", "source1", "source2", "nreg"}

Positions(blocks) ==
    UNION {{<<b, i>> : i \in 1..Len(blocks[b].instructions)} :
              b \in 1..Len(blocks)}

InstructionLists(blocks) ==
    [b \in 1..Len(blocks) |-> blocks[b].instructions]

\* C1: every register field of every instruction of the register blocks
\* lies in [0, nlocals + stacksize), once the byte string has been given
\* out (the conversion did not abort).
C1_RegisterFieldsInRange ==
    (pc = "lowered" /\ ret.returned = "bytes") =>
        \A p \in Positions(rvm) :
            LET instr == rvm[p[1]].instructions[p[2]]
            IN \A f \in RegisterFields \cap DOMAIN instr :
                   instr[f] \in 0..(max_stacklevel - 1)

\* C2: while lowering goes on, and when it has ended without a fatal
\* error, nlocals <= stacklevel <= max_stacklevel.
C2_StackLevelWithinBounds ==
    pc \in {"lowering", "lowered"} =>
        /\ codeobj.co_nlocals <= stacklevel
        /\ stacklevel <= max_stacklevel

\* C3: a propagation pass gives every block what the pass gives that
\* block taken alone, with an empty dictionary at its start: no alias
\* passes from one block to another.
ForwardAlone(instrs) ==
    forward_block(mark_protected_block(instrs), 1, EmptyDict, FALSE).instructions

BackwardAlone(instrs) ==
    backward_block(instrs, Len(instrs), EmptyDict, FALSE).instructions

C3_PassesStayWithinBlock ==
    [][/\ (phase = "none" /\ phase' = "fwd") =>
              \A b \in 1..Len(rvm) :
                  rvm'[b].instructions = ForwardAlone(rvm[b].instructions)
       /\ (phase = "fwd" /\ phase' = "bwd") =>
              \A b \in 1..Len(rvm) :
                  rvm'[b].instructions = BackwardAlone(rvm[b].instructions)]_vars

(***************************************************************************)
(* The byte target of a jump, read from the words of co_code alone.        *)
(***************************************************************************)
RECURSIVE FoldedOparg(_, _)
FoldedOparg(code, k) ==
    code[k].arg +
    256 * (IF k > 1 /\ code[k - 1].op = EXT_ARG_OPCODE
           THEN FoldedOparg(code, k - 1) ELSE 0)

ByteTarget(code, k) ==
    IF code[k].op \in hasjrel
    THEN 2 * (k - 1) + FoldedOparg(code, k)
    ELSE FoldedOparg(code, k)

\* The words that are instructions, in order: the j-th one is the j-th
\* instruction of the source blocks.
InstructionWords(code) ==
    SelectSeq([k \in 1..Len(code) |-> k],
              LAMBDA k : code[k].op # EXT_ARG_OPCODE)

SourceInstructions == Flatten(InstructionLists(pyvm))

JumpWords ==
    {j \in 1..Len(InstructionWords(codeobj.co_code)) :
        is_jump(codeobj.co_code[InstructionWords(codeobj.co_code)[j]].op)}

JumpByteTarget(j) ==
    ByteTarget(codeobj.co_code, InstructionWords(codeobj.co_code)[j])

AssertionFailed == pc = "failed" /\ ret = RaisedValue("AssertionError")

NoBlockAt(address) == \A b \in 1..Len(pyvm) : pyvm[b].address # address

\* C4: after find_blocks every source jump has a target that is a source
\* block number, the address of that block is the byte target of the jump
\* (the folded oparg, plus the offset of the instruction for a relative
\* jump), and the jump has no target_address left; find_blocks fails with
\* the assertion exactly when some jump has no block at its byte target.
C4_JumpTargetsResolved ==
    pc # "new" =>
        /\ Len(SourceInstructions) = Len(InstructionWords(codeobj.co_code))
        /\ AssertionFailed <=> (\E j \in JumpWords : NoBlockAt(JumpByteTarget(j)))
        /\ ~AssertionFailed =>
               \A j \in JumpWords :
                   LET instr == SourceInstructions[j]
                   IN /\ instr.cls = "JumpInstruction"
                      /\ "target_address" \notin DOMAIN instr
                      /\ instr.target \in 0..(Len(pyvm) - 1)
                      /\ pyvm[instr.target + 1].block_number = instr.target
                      /\ pyvm[instr.target + 1].address = JumpByteTarget(j)

\* A relative jump with an EXTENDED_ARG prefix that goes to a later block.
C4_Witness ==
    /\ pc # "new"
    /\ ~AssertionFailed
    /\ \E j \in JumpWords :
           LET k == InstructionWords(codeobj.co_code)[j]
           IN /\ codeobj.co_code[k].op \in hasjrel
              /\ k > 1
              /\ codeobj.co_code[k - 1].op = EXT_ARG_OPCODE
              /\ SourceInstructions[j].target > 0
              /\ pyvm[SourceInstructions[j].target + 1].address = 2 * (k - 1) + 2

(***************************************************************************)
(* The byte string given out, read against the blocks it was made from.    *)
(***************************************************************************)
JumpClasses == {"JumpAbsInstruction", "JumpIfInstruction"}

\* The words of the blocks before block b (counted from 1), and of the
\* instructions of block b before its i-th.
RECURSIVE WordsOfBlocks(_, _)
WordsOfBlocks(blocks, b) ==
    IF b = 0 THEN 0
    ELSE WordsOfBlocks(blocks, b - 1) +
         SumSeq([i \in 1..Len(blocks[b].instructions) |->
                    NumOpargs(blocks[b].instructions[i])])

WordsBefore(blocks, b, i) ==
    WordsOfBlocks(blocks, b - 1) +
    SumSeq([k \in 1..(i - 1) |-> NumOpargs(blocks[b].instructions[k])])

\* No load can overrun the registers: the loads are the only instructions
\* of the inputs that add to the stack.
NoLoadOverflow ==
    Cardinality({k \in 1..Len(codeobj.co_code) :
                    codeobj.co_code[k].op \in LoadOps}) <= codeobj.co_stacksize

\* C5: in the byte string given out, the address a jump carries is the
\* offset at which the first instruction of its target block starts in
\* that byte string, whatever passes ran and whatever was given out before.
C5_JumpOpargIsFinalAddress ==
    (pc = "lowered" /\ ret.returned = "bytes") =>
        /\ Len(ret.bytes) = WordsOfBlocks(rvm, Len(rvm))
        /\ \A p \in Positions(rvm) :
               LET instr == rvm[p[1]].instructions[p[2]]
               IN instr.cls \in JumpClasses =>
                      ret.bytes[WordsBefore(rvm, p[1], p[2]) + 1].arg =
                          2 * WordsOfBlocks(rvm, instr.target)

\* The passes and the deletion took instructions out of a block before the
\* target of a jump, and the byte string was given out after that.
C5_Witness ==
    /\ pc = "lowered"
    /\ ret.returned = "bytes"
    /\ phase = "done"
    /\ NoLoadOverflow
    /\ \E p \in Positions(rvm) :
           LET instr == rvm[p[1]].instructions[p[2]]
           IN /\ instr.cls \in JumpClasses
              /\ instr.target > 0
              /\ \E c \in 1..instr.target :
                     Len(rvm[c].instructions) < Len(pyvm[c].instructions)

\* C6: after any passes, reflow gives block 0 the address 0 and every
\* other block the address of the block before it plus the length of the
\* instructions of the block before it.
C6_AddressesChain ==
    pc = "lowered" =>
        LET flowed == reflow(rvm)
        IN \A k \in 1..Len(flowed) :
               flowed[k].address =
                   IF k = 1 THEN 0
                   ELSE flowed[k - 1].address +
                        SumSeq([i \in 1..Len(flowed[k - 1].instructions) |->
                                   InstrLen(flowed[k - 1].instructions[i])])

\* Block 1 has moved to an earlier address: block 0 lost instructions, and
\* the addresses were computed after that.
C6_Witness ==
    /\ pc = "lowered"
    /\ phase = "done"
    /\ NoLoadOverflow
    /\ Len(rvm) >= 2
    /\ rvm[1].instructions # <<>>
    /\ Len(rvm[1].instructions) < Len(pyvm[1].instructions)
    /\ rvm[1].address = 0
    /\ rvm[2].address = codelen(rvm[1])

(***************************************************************************)
(* The peephole pipeline: marking and forward propagation, backward        *)
(* propagation, deletion of the NOPs.                                      *)
(***************************************************************************)
PeepholePipeline(blocks) ==
    delete_nops(backward_propagate_fast_stores(
                    forward_propagate_fast_loads(blocks)))

\* C7: once the pipeline has run, running it again leaves the instruction
\* list of every block, and every field of every instruction, as it is.
C7_PipelineIdempotent ==
    (pc = "lowered" /\ phase = "done") =>
        InstructionLists(PeepholePipeline(rvm)) = InstructionLists(rvm)

\* The pipeline has run and has changed a block: an instruction is gone,
\* a marked load is kept.
C7_Witness ==
    /\ pc = "lowered"
    /\ phase = "done"
    /\ NoLoadOverflow
    /\ \E p \in Positions(rvm) :
           LET instr == rvm[p[1]].instructions[p[2]]
           IN /\ HasAttr(instr, "protected")
              /\ instr.protected
              /\ Len(rvm[p[1]].instructions) < Len(pyvm[p[1]].instructions)

(***************************************************************************)
(* The instruction a turn of the lowering loop is about to convert.        *)
(***************************************************************************)
CurrentInstr == pyvm[cursor[1]].instructions[cursor[2]]

\* push() is about to overrun the registers in a load.
LoadOverflows ==
    /\ pc = "lowering"
    /\ CurrentInstr.opcode \in LoadOps
    /\ stacklevel + 1 > max_stacklevel

\* A convert method other than load_convert is about to raise
\* StackSizeException.
OtherHandlerRaises ==
    /\ pc = "lowering"
    /\ CurrentInstr.opcode \in (DOMAIN dispatch) \ LoadOps
    /\ convert(CurrentInstr, stacklevel, codeobj.co_nlocals,
               max_stacklevel).status = "StackSizeException"

LaterBlocks ==
    {c \in (cursor[1] + 1)..Len(pyvm) : pyvm[c].instructions # <<>>}

EmissionSucceeds ==
    LET words == ConverterBytes(reflow(rvm))
    IN IsByteString([k \in 1..Len(words) |-> words[k].arg])

\* C8: when push() overruns the registers in a LOAD_FAST, LOAD_CONST or
\* LOAD_GLOBAL, the run does not fail, no instruction is added to any
\* register block, and lowering goes on at the first instruction of the
\* next source block that has one (it is over when there is none); a turn
\* of the loop adds instructions to the block it is in only and never
\* goes back, so that the rest of the block gets nothing; the lowered
\* blocks can be given out as bytes.  A stack bound violation in any other
\* convert method ends the run with StackSizeException.
C8_LoadOverflowSkipsTail ==
    [][/\ LoadOverflows =>
              /\ pc' # "failed"
              /\ InstructionLists(rvm') = InstructionLists(rvm)
              /\ IF LaterBlocks = {}
                 THEN pc' = "lowered"
                 ELSE /\ pc' = "lowering"
                      /\ cursor'[1] \in LaterBlocks
                      /\ \A c \in LaterBlocks : cursor'[1] <= c
                      /\ cursor'[2] = 1
       /\ pc = "lowering" =>
              /\ \A b \in 1..Len(rvm) :
                     b # cursor[1] =>
                         rvm'[b].instructions = rvm[b].instructions
              /\ pc' = "lowering" => Before(cursor, cursor')
       /\ pc = "lowered" => (EmissionSucceeds /\ pc' = "lowered")
       /\ OtherHandlerRaises =>
              /\ pc' = "failed"
              /\ ret' = RaisedValue("StackSizeException")]_vars

\* A load overran the registers in block 0, the tail of the block got
\* nothing, a later block was lowered and the bytes were given out.
C8_Witness ==
    /\ pc = "lowered"
    /\ ret.returned = "bytes"
    /\ phase = "none"
    /\ Len(rvm) >= 2
    /\ Len(pyvm[1].instructions) >= Len(rvm[1].instructions) + 2
    /\ pyvm[1].instructions[Len(rvm[1].instructions) + 1].opcode \in LoadOps
    /\ rvm[2].instructions # <<>>

\* C9: a source opcode with no entry in the dispatch table ends the run
\* with KeyError; a run that has failed holds an exception, never bytes,
\* and bytes are given out only for blocks whose lowering has ended.
C9_UnhandledOpcodeAborts ==
    [][/\ (pc = "lowering" /\ CurrentInstr.opcode \notin DOMAIN dispatch) =>
              /\ pc' = "failed"
              /\ ret' = RaisedValue("KeyError")
       /\ pc' = "failed" => ret'.returned = "raised"
       /\ ret'.returned = "bytes" => (pc = "lowered" /\ pc' = "lowered")]_vars

\* The run has failed with KeyError after a part of the code was lowered.
C9_Witness ==
    /\ pc = "failed"
    /\ ret = RaisedValue("KeyError")
    /\ \E b \in 1..Len(rvm) : rvm[b].instructions # <<>>
    /\ pyvm[cursor[1]].instructions[cursor[2]].opcode = "FOR_ITER"

(***************************************************************************)
(* The line-number table read against the instructions given out.          *)
(***************************************************************************)
EmittedInstructions == AllInstructions(rvm)

\* The byte offset of the j-th instruction: two bytes for every word that
\* the instructions before it give out.
EmittedOffset(j) ==
    2 * SumSeq([i \in 1..(j - 1) |->
                   Len(InstrBytes(EmittedInstructions[i], rvm))])

\* The last line recorded when the j-th instruction is met.
RECURSIVE LastRecorded(_)
LastRecorded(j) ==
    IF j = 1 THEN codeobj.co_firstlineno
    ELSE LET before == LastRecorded(j - 1)
             line   == EmittedInstructions[j - 1].line_number
         IN IF line > before THEN line ELSE before

RecordedInstructions ==
    SelectSeq([j \in 1..Len(EmittedInstructions) |-> j],
              LAMBDA j : EmittedInstructions[j].line_number > LastRecorded(j))

AddressDeltas(lnotab, k) == SumSeq([m \in 1..k |-> lnotab[2 * m - 1]])

LineDeltas(lnotab, k) == SumSeq([m \in 1..k |-> lnotab[2 * m]])

\* C10: the table has one pair for every instruction whose line is past
\* the last line recorded (co_firstlineno at first) and for no other; the
\* address deltas up to a pair add up to the byte offset of its
\* instruction, co_firstlineno and the line deltas up to it to its line.
C10_LnotabPairs ==
    (pc = "lowered" /\ ret.returned = "lnotab") =>
        /\ Len(ret.lnotab) = 2 * Len(RecordedInstructions)
        /\ \A k \in 1..Len(RecordedInstructions) :
               LET j == RecordedInstructions[k]
               IN /\ AddressDeltas(ret.lnotab, k) = EmittedOffset(j)
                  /\ codeobj.co_firstlineno + LineDeltas(ret.lnotab, k) =
                         EmittedInstructions[j].line_number

\* Two pairs, the second one past byte 0 of the first, and an instruction
\* after them that gets no pair.
C10_Witness ==
    /\ pc = "lowered"
    /\ ret.returned = "lnotab"
    /\ Len(ret.lnotab) = 4
    /\ ret.lnotab[1] > 0
    /\ ret.lnotab[3] > 0
    /\ RecordedInstructions[2] < Len(EmittedInstructions)

(***************************************************************************)
(* The encoding of one instruction.                                        *)
(***************************************************************************)
EncodingAgrees(instr, blocks) ==
    LET opargs == Opargs(instr, blocks)
        k      == Len(opargs)
        words  == InstrBytes(instr, blocks)
    IN /\ InstrLen(instr) = 2 + 2 * (k - 1)
       /\ 2 * Len(words) = InstrLen(instr)
       /\ \A j \in 1..(k - 1) : words[j] = Word(EXT_ARG_OPCODE, opargs[j])
       /\ words[k] = Word(instr.opcode, opargs[k])

NetEffect(instr) ==
    LET op == instr.opcode
        n  == IF instr.cls = "PyVMInstruction" THEN instr.opargs[1] ELSE 0
    IN CASE op \in UnaryOps -> 0
         [] op \in BinaryOps \cup CompareOps -> -1
         [] op \in LoadOps -> 1
         [] op \in StoreOps -> -1
         [] op \in {"BUILD_LIST", "BUILD_TUPLE"} -> 1 - n
         [] op = "BUILD_MAP" -> 1 - 2 * n
         [] op = "LIST_EXTEND" -> -1
         [] op = "CALL_FUNCTION" -> 0 - n
         [] op = "CALL_FUNCTION_KW" -> 0 - (n + 1)
         [] op \in {"POP_JUMP_IF_FALSE", "POP_JUMP_IF_TRUE"} -> -1
         [] op \in {"JUMP_FORWARD", "JUMP_ABSOLUTE"} -> 0
         [] op = "RETURN_VALUE" -> -1

NoBoundViolation ==
    /\ pc = "lowering"
    /\ CurrentInstr.opcode \in DOMAIN dispatch
    /\ convert(CurrentInstr, stacklevel, codeobj.co_nlocals,
               max_stacklevel).status = "instr"

\* C12: a turn of the lowering loop that meets no bound violation changes
\* stacklevel by the net effect of the family of the instruction, and adds
\* one instruction to the register block.
C12_StackEffectByFamily ==
    [][NoBoundViolation =>
           /\ stacklevel' = stacklevel + NetEffect(CurrentInstr)
           /\ Len(rvm'[cursor[1]].instructions) =
                  Len(rvm[cursor[1]].instructions) + 1]_vars

\* Three loads, then BUILD_MAP 1 has taken two of them and given one
\* register back.
C12_Witness ==
    /\ pc = "lowered"
    /\ Len(pyvm) = 1
    /\ Len(pyvm[1].instructions) = 4
    /\ Len(rvm[1].instructions) = 4
    /\ rvm[1].instructions[4].opcode = "BUILD_MAP_REG"
    /\ stacklevel = codeobj.co_nlocals + 2

(***************************************************************************)
(* The entry stack level a conditional jump records for its target.        *)
(***************************************************************************)
ConditionalJumpLowered ==
    /\ pc = "lowering"
    /\ CurrentInstr.opcode \in {"POP_JUMP_IF_FALSE", "POP_JUMP_IF_TRUE"}
    /\ pc' # "failed"

\* C13: when a POP_JUMP_IF_FALSE or POP_JUMP_IF_TRUE is lowered, the
\* stacklevel slot of the register block the jump goes to holds the value
\* top() has after the condition has been popped.
C13_JumpRecordsLevelAfterPop ==
    [][ConditionalJumpLowered =>
           rvm'[CurrentInstr.target + 1].stacklevel = top(stacklevel')]_vars

(***************************************************************************)
(* The windows of registers that instructions read without naming them.    *)
(***************************************************************************)
WindowClasses == {"BuildSeqInstruction", "CallInstruction", "CallInstructionKW"}

\* [dest, dest+length) of a build, [dest, dest+nargs) of a call.
StatedWindow(instr) ==
    IF instr.cls = "BuildSeqInstruction"
    THEN instr.dest .. (instr.dest + instr.length - 1)
    ELSE instr.dest .. (instr.dest + instr.nargs - 1)

\* The loads of instrs before index i that write register r.
LoadsInto(instrs, i, r) ==
    {j \in 1..(i - 1) :
        instrs[j].cls = "LoadFastInstruction" /\ instrs[j].dest = r}

Last(indexes) == CHOOSE j \in indexes : \A k \in indexes : k <= j

\* C14: when forward_propagate_fast_loads has marked the protected loads,
\* for every BuildSeqInstruction, CallInstruction and CallInstructionKW of
\* a block and every register of its window, the last LoadFastInstruction
\* before it in the block that writes the register is marked, and the
\* pass leaves that load in place.
C14_WindowLoadsProtected ==
    [][forward_propagate =>
           \A p \in Positions(rvm) :
               LET instrs == rvm[p[1]].instructions
                   i      == p[2]
               IN instrs[i].cls \in WindowClasses =>
                      \A r \in StatedWindow(instrs[i]) :
                          LoadsInto(instrs, i, r) # {} =>
                              LET j == Last(LoadsInto(instrs, i, r))
                              IN /\ mark_protected_loads(rvm)[p[1]]
                                        .instructions[j].protected
                                 /\ rvm'[p[1]].instructions[j].cls =
                                        "LoadFastInstruction"]_vars

\* The instructions that are not loads and write a register.
LoadClasses ==
    {"LoadFastInstruction", "LoadConstInstruction", "LoadGlobalInstruction"}

NonLoadWrite(instr, r) ==
    /\ instr.cls \notin LoadClasses \cup {"NOPInstruction"}
    /\ HasAttr(instr, "dest")
    /\ instr.dest = r

\* The loads the walk for the instruction at index i marks.
MarkedFor(instrs, i) ==
    protect_walk(instrs, i - 1, [r \in Window(instrs[i]) |-> FALSE], {})

\* C15: in the marking, an instruction that is not a load and writes a
\* register of a window covers the register: a LoadFastInstruction into
\* the register that comes before that write, in the block of the window
\* instruction, is not marked by the walk for that window.
C15_NonLoadWriteCovers ==
    [][forward_propagate =>
           \A p \in Positions(rvm) :
               LET instrs == rvm[p[1]].instructions
                   i      == p[2]
               IN HasWindow(instrs[i]) =>
                      \A r \in Window(instrs[i]) :
                          \A j \in LoadsInto(instrs, i, r) :
                              (\E k \in (j + 1)..(i - 1) :
                                   NonLoadWrite(instrs[k], r)) =>
                                  j \notin MarkedFor(instrs, i)]_vars

(***************************************************************************)
(* The registers an instruction with a window takes its operands from:     *)
(* the ones the lowering popped for it.                                    *)
(***************************************************************************)
PoppedOperands(instr, level) ==
    LET n == instr.opargs[1]
    IN CASE instr.opcode \in {"BUILD_LIST", "BUILD_TUPLE"} ->
                (level - n)..(level - 1)
         [] instr.opcode = "BUILD_MAP" -> (level - 2 * n)..(level - 1)
         [] instr.opcode = "CALL_FUNCTION" -> (level - n)..(level - 1)
         [] instr.opcode = "CALL_FUNCTION_KW" -> (level - 1 - n)..(level - 2)
         [] OTHER -> {}

ScannedWindow(instr) == IF HasWindow(instr) THEN Window(instr) ELSE {}

\* The operands of a register instruction, read from its fields.
OperandRegisters(instr) ==
    CASE instr.cls = "BuildSeqInstruction" ->
             instr.dest ..
                 (instr.dest - 1 + instr.length *
                      (IF instr.opcode = "BUILD_MAP_REG" THEN 2 ELSE 1))
      [] instr.cls \in {"CallInstruction", "CallInstructionKW"} ->
             (instr.dest + 1)..(instr.dest + instr.nargs)
      [] OTHER -> {}

Writes(instrs, i, r) ==
    {j \in 1..(i - 1) : HasAttr(instrs[j], "dest") /\ instrs[j].dest = r}

\* C19: every register the lowering pops as an operand of a build or of a
\* call lies in the window the marking scans for the instruction emitted,
\* and forward propagation of freshly lowered blocks replaces no
\* LoadFastInstruction that is the last write to such a register.
C19_OperandsInsideWindow ==
    [][/\ (NoBoundViolation /\ CurrentInstr.opcode \in SeqOps \cup FunctionOps
           /\ CurrentInstr.opcode # "LIST_EXTEND") =>
              LET emitted == rvm'[cursor[1]].instructions[
                                 Len(rvm'[cursor[1]].instructions)]
              IN PoppedOperands(CurrentInstr, stacklevel) \subseteq
                     ScannedWindow(emitted)
       /\ (forward_propagate /\ phase = "none") =>
              \A p \in Positions(rvm) :
                  LET instrs == rvm[p[1]].instructions
                      i      == p[2]
                  IN \A r \in OperandRegisters(instrs[i]) :
                         Writes(instrs, i, r) # {} =>
                             LET j == Last(Writes(instrs, i, r))
                             IN instrs[j].cls = "LoadFastInstruction" =>
                                    rvm'[p[1]].instructions[j].cls =
                                        "LoadFastInstruction"]_vars

(***************************************************************************)
(* What the two propagation passes keep of the values the registers hold.  *)
(***************************************************************************)
InstrAt(blocks, p) == blocks[p[1]].instructions[p[2]]

Defines(instr, r) == HasAttr(instr, "dest") /\ instr.dest = r

\* A write that changes what the register holds: not a store of the
\* register into itself.
Overwrites(instr, r) ==
    /\ Defines(instr, r)
    /\ ~(instr.cls = "StoreFastInstruction" /\ instr.source1 = r)

\* C16: when backward_propagate_fast_stores replaces a StoreFastInstruction
\* with dest d and source1 s by a NOP, an instruction before it in the
\* block that defined s has d as its dest afterwards, and the block still
\* has an instruction that writes d when the NOPs are deleted.  (A store
\* of a register into itself has no effect to lose and is left out, and
\* so is code in which a load overran the registers.)
C16_ElidedStoreKeepsEffect ==
    [][(backward_propagate /\ NoLoadOverflow) =>
           \A p \in Positions(rvm) :
               LET store == InstrAt(rvm, p)
               IN (/\ store.cls = "StoreFastInstruction"
                   /\ store.source1 # store.dest
                   /\ InstrAt(rvm', p).cls = "NOPInstruction") =>
                      /\ \E q \in 1..(p[2] - 1) :
                             /\ Defines(InstrAt(rvm, <<p[1], q>>), store.source1)
                             /\ Defines(InstrAt(rvm', <<p[1], q>>), store.dest)
                      /\ \E q \in 1..Len(delete_nops(rvm')[p[1]].instructions) :
                             Defines(InstrAt(delete_nops(rvm'), <<p[1], q>>),
                                     store.dest)]_vars

\* The load of register d from register s at position q is elided by the
\* step.
ElidedLoad(q, d, s) ==
    /\ InstrAt(rvm, q).cls = "LoadFastInstruction"
    /\ InstrAt(rvm, q).dest = d
    /\ InstrAt(rvm, q).source1 = s
    /\ InstrAt(rvm', q).cls = "NOPInstruction"

Rewritten(p, f) ==
    /\ HasAttr(InstrAt(rvm, p), f)
    /\ HasAttr(InstrAt(rvm', p), f)
    /\ InstrAt(rvm', p)[f] # InstrAt(rvm, p)[f]

\* C17: when forward_propagate_fast_loads rewrites a source register d of
\* an instruction to s because of an elided LoadFastInstruction of d from
\* s before it in the block, no instruction between that load and the
\* rewritten one writes s.  (A store of s into itself is not counted as a
\* write, and code in which a load overran the registers is left out.)
C17_AliasSourceNotOverwritten ==
    [][(forward_propagate /\ NoLoadOverflow) =>
           \A p \in Positions(rvm) :
               \A f \in {"source1", "source2"} :
                   Rewritten(p, f) =>
                       LET d     == InstrAt(rvm, p)[f]
                           s     == InstrAt(rvm', p)[f]
                           loads == {q \in 1..(p[2] - 1) :
                                        ElidedLoad(<<p[1], q>>, d, s)}
                       IN loads # {} =>
                              \A k \in (Last(loads) + 1)..(p[2] - 1) :
                                  ~Overwrites(InstrAt(rvm', <<p[1], k>>), s)]_vars

\* C18: backward_propagate_fast_stores leaves the dest of every
\* BuildSeqInstruction, CallInstruction and CallInstructionKW with a
\* window that is not empty as it is.
C18_WindowDestUnchanged ==
    [][backward_propagate =>
           \A p \in Positions(rvm) :
               (/\ InstrAt(rvm, p).cls \in WindowClasses
                /\ StatedWindow(InstrAt(rvm, p)) # {}) =>
                   InstrAt(rvm', p).dest = InstrAt(rvm, p).dest]_vars

(***************************************************************************)
(* The operand stack of the source machine along the paths through the     *)
(* source blocks.  An entry is <<block, depth>>, blocks counted from 1.    *)
(* BlockWalk follows a block from its i-th instruction at depth d: it      *)
(* gives the entries of the blocks control goes to next, and whether the   *)
(* stack stays within 0..limit, control leaves by a jump or a return, and  *)
(* no instruction follows an unconditional jump or a return in the block.  *)
(***************************************************************************)
RECURSIVE BlockWalk(_, _, _, _, _)
BlockWalk(blocks, b, i, d, limit) ==
    IF i > Len(blocks[b].instructions)
    THEN [succ |-> IF b < Len(blocks) THEN {<<b + 1, d>>} ELSE {},
          ok |-> b < Len(blocks)]
    ELSE LET instr == blocks[b].instructions[i]
             after == d + NetEffect(instr)
         IN IF after < 0 \/ after > limit THEN [succ |-> {}, ok |-> FALSE]
            ELSE IF instr.opcode = "RETURN_VALUE"
            THEN [succ |-> {}, ok |-> i = Len(blocks[b].instructions)]
            ELSE IF instr.opcode \in {"JUMP_FORWARD", "JUMP_ABSOLUTE"}
            THEN [succ |-> {<<instr.target + 1, after>>},
                  ok |-> i = Len(blocks[b].instructions)]
            ELSE IF instr.opcode \in {"POP_JUMP_IF_FALSE", "POP_JUMP_IF_TRUE"}
            THEN LET rest == BlockWalk(blocks, b, i + 1, after, limit)
                 IN [succ |-> rest.succ \cup {<<instr.target + 1, after>>},
                     ok |-> rest.ok]
            ELSE BlockWalk(blocks, b, i + 1, after, limit)

RECURSIVE GrowEntries(_, _, _)
GrowEntries(blocks, limit, reached) ==
    LET next == reached \cup
                UNION {BlockWalk(blocks, e[1], 1, e[2], limit).succ : e \in reached}
    IN IF next = reached THEN reached ELSE GrowEntries(blocks, limit, next)

EntryDepths(blocks, limit) == GrowEntries(blocks, limit, {<<1, 0>>})

\* Code as the host compiler gives it: on every path the stack stays
\* within co_stacksize, every block is reached, and a block is entered
\* with one depth only.
StackConsistent(blocks, limit) ==
    LET reached == EntryDepths(blocks, limit)
    IN /\ \A e \in reached : BlockWalk(blocks, e[1], 1, e[2], limit).ok
       /\ \A b \in 1..Len(blocks) : \E e \in reached : e[1] = b
       /\ \A e, f \in reached : e[1] = f[1] => e[2] = f[2]

PathAlphabet ==
    {Word("LOAD_FAST", 0), Word("POP_JUMP_IF_FALSE", 6),
     Word("POP_JUMP_IF_FALSE", 8), Word("JUMP_FORWARD", 4),
     Word("RETURN_VALUE", 0)}

PathPrograms == UNION {[1..n -> PathAlphabet] : n \in 1..(MaxLen + 2)}

WellFormed(co) ==
    LET blocks == find_blocks_result(co)
    IN /\ jump_assertion_holds(blocks)
       /\ StackConsistent(convert_jump_targets_to_blocks(blocks),
                          co.co_stacksize)

InitPaths ==
    InitWith({co \in [co_code : PathPrograms, co_nlocals : {1},
                      co_stacksize : 1..MaxStackSize, co_firstlineno : {1},
                      co_lnotab : {<<>>}] : WellFormed(co)})

SpecPaths == InitPaths /\ [][Next]_vars

\* C20: when the lowering loop is at the first instruction of a source
\* block, stacklevel is nlocals plus the depth of the operand stack with
\* which the source machine enters the block, on every path from block 0
\* that reaches it.
C20_BlockEntryLevelMatchesPaths ==
    (pc = "lowering" /\ cursor[2] = 1) =>
        \A e \in EntryDepths(pyvm, codeobj.co_stacksize) :
            e[1] = cursor[1] => stacklevel = codeobj.co_nlocals + e[2]

(***************************************************************************)
(* The handlers of function.py and unary.py, which enter themselves in     *)
(* the table DISPATCH of the package.  They take the converter as self     *)
(* and use its top, pop and push.                                          *)
(***************************************************************************)
function(instr, level, nlocals, limit) ==
    LET nargs == PyVMOparg(instr)
        dest  == top(level) - nargs
        p     == popn(level, nargs, nlocals)
    IN IF p.raised THEN Raised(p.level)
       ELSE Converted(p.level,
                CallInstruction("CALL_FUNCTION_REG", nargs, dest))

function_kw(instr, level, nlocals, limit) ==
    LET nargs == PyVMOparg(instr)
        nreg  == top(level)
        dest  == top(level) - nargs - 1
        p     == popn(level, nargs + 1, nlocals)
    IN IF p.raised THEN Raised(p.level)
       ELSE Converted(p.level,
                CallInstructionKW("CALL_FUNCTION_KW_REG", nargs, nreg, dest))

unary_op(instr, level, nlocals, limit) ==
    LET src == pop(level, nlocals)
        dst == push(src.level, limit)
    IN IF src.raised THEN Raised(src.level)
       ELSE IF dst.raised THEN Raised(dst.level)
       ELSE Converted(dst.level,
                UnaryOpInstruction(reg_opcode(instr.opcode), dst.val, src.val))

DISPATCH ==
    [op \in UnaryOps \cup FunctionOps |->
        CASE op \in UnaryOps -> "unary_op"
          [] op = "CALL_FUNCTION" -> "function"
          [] OTHER -> "function_kw"]

standalone_convert(instr, level, nlocals, limit) ==
    LET m == DISPATCH[instr.opcode]
    IN CASE m = "unary_op" -> unary_op(instr, level, nlocals, limit)
         [] m = "function" -> function(instr, level, nlocals, limit)
         [] OTHER -> function_kw(instr, level, nlocals, limit)

\* The source instructions that leave a value on the stack.
ValueProducing ==
    UnaryOps \cup BinaryOps \cup CompareOps \cup LoadOps \cup FunctionOps
        \cup {"BUILD_LIST", "BUILD_TUPLE", "BUILD_MAP"}

\* A handler of DISPATCH gives, from the same stack state, the dest (and
\* the nreg, where there is one) of the instruction the converter emitted.
SameRegisters(standalone, emitted) ==
    /\ standalone.status = "instr"
    /\ standalone.instr.dest = emitted.dest
    /\ standalone.instr.cls = "CallInstructionKW" =>
           standalone.instr.nreg = emitted.nreg

\* The lowering loop is at a value-producing instruction whose operands
\* are all on the stack, so that its result lands in a stack register.
LowersValue ==
    /\ NoBoundViolation
    /\ CurrentInstr.opcode \in ValueProducing
    /\ stacklevel + NetEffect(CurrentInstr) > codeobj.co_nlocals

\* C21: a turn of the lowering loop on a value-producing instruction that
\* meets no bound violation emits an instruction whose dest is the new
\* stacklevel - 1, and the handler of function.py or unary.py for the same
\* opcode computes the same dest and nreg from the same stack state.
C21_DestIsTopAndHandlersAgree ==
    [][LowersValue =>
           LET emitted == rvm'[cursor[1]].instructions[
                              Len(rvm'[cursor[1]].instructions)]
           IN /\ emitted.dest = stacklevel' - 1
              /\ CurrentInstr.opcode \in DOMAIN DISPATCH =>
                     SameRegisters(standalone_convert(CurrentInstr, stacklevel,
                                       codeobj.co_nlocals, max_stacklevel),
                                   emitted)]_vars

====
